---------------------------- MODULE Spec2Model ----------------------------
(***************************************************************************)
(* A model of leveldb's TableBuilder (table/table_builder.cc).             *)
(*                                                                         *)
(* The builder is single-threaded: every public operation (Add, Flush,     *)
(* ChangeOptions, Finish, Abandon) is one atomic action.  The state is     *)
(* the fields of TableBuilder::Rep plus the output sink (`file`, the log   *)
(* of every Append/Flush the builder has issued, with its outcome) and     *)
(* `call`, the most recent public call and how it ended.                   *)
(*                                                                         *)
(* Build assumptions: assertions are compiled in (a failed assert aborts   *)
(* the process before the statement after it runs).  The collaborators     *)
(* that are not part of table_builder.cc (BlockBuilder, FilterBlock-       *)
(* Builder, the comparator, the snappy port, the sink) are modelled from   *)
(* their contracts; what they return is chosen by the environment.         *)
(* Byte strings are abstracted: a payload is the record of what was put    *)
(* in it together with its length in bytes; the CRC in a trailer is not    *)
(* computed.  compressed_output is scratch space, empty between calls,     *)
(* and is not a state variable.                                            *)
(***************************************************************************)
EXTENDS Integers, Sequences, FiniteSets, TLC

\* ------------------------------------------------------------- bounds
\* User keys are 2, 4, .., 2*MaxKeys; the odd numbers around them are the
\* strings a comparator may return as separator or successor.
MaxKeys == 2

\* The largest block size the compression threshold is checked for.
MaxRawSize == 40

\* ---------------------------------------------------------- constants
kBlockTrailerSize == 5
kEncodedLength == 48
kNoCompression == 0
kSnappyCompression == 1

\* The raw and compressed sizes for which the choice between the raw and
\* the compressed form of a block is checked.
Sizes == 0..MaxRawSize
Keys == {2 * i : i \in 1..MaxKeys}
KeySpace == 1..(2 * MaxKeys + 1)
ValueSizes == {4}
NoPolicy == "nullptr"
SnappyOutcomes == {"unsupported", "edge", "small"}

\* The Options values a caller may pass (the fields of leveldb/options.h
\* the builder reads): the default and the values one field away from it.
DefaultOptions ==
  [comparator |-> "bytewise", block_size |-> 20, compression |-> kNoCompression,
   filter_policy |-> "P1", block_restart_interval |-> 16]
OptionValues ==
  {DefaultOptions,
   [DefaultOptions EXCEPT !.comparator = "reverse"],
   [DefaultOptions EXCEPT !.block_size = 16],
   [DefaultOptions EXCEPT !.compression = kSnappyCompression],
   [DefaultOptions EXCEPT !.filter_policy = NoPolicy],
   [DefaultOptions EXCEPT !.filter_policy = "P2"]}

VARIABLES options, index_block_options, file, offset, status, data_block,
          index_block, last_key, num_entries, closed, filter_block,
          pending_index_entry, pending_handle, call

repvars == <<options, index_block_options, file, offset, status, data_block,
             index_block, last_key, num_entries, closed, filter_block,
             pending_index_entry, pending_handle>>
vars == <<options, index_block_options, file, offset, status, data_block,
          index_block, last_key, num_entries, closed, filter_block,
          pending_index_entry, pending_handle, call>>

\* ------------------------------------------------------ collaborators
\* Status values: ok, and what a failed sink Append / Flush returns.
StatusOK == "OK"
ok(r) == r.status = StatusOK

\* BlockHandle(): offset and size start as ~0.
NullHandle == [offset |-> -1, size |-> -1]

VarintLength(v) == IF v < 128 THEN 1 ELSE 2
HandleLength(h) == VarintLength(h.offset) + VarintLength(h.size)

\* Comparator::Compare: < 0, 0, > 0.
Compare(cmp, a, b) ==
  IF cmp = "bytewise" THEN a - b ELSE b - a

\* The results of FindShortestSeparator / FindShortSuccessor that the
\* model tries: the argument itself (nothing shorter exists) and the
\* strings next to it.
Near(key) == {key - 1, key, key + 1}

\* Comparator::FindShortestSeparator(&start, limit): the strings the
\* contract allows as result, those in [start, limit); start itself when
\* start >= limit.
Separators(cmp, start, limit) ==
  IF Compare(cmp, start, limit) < 0
    THEN {s \in KeySpace \cap Near(start) :
            Compare(cmp, start, s) <= 0 /\ Compare(cmp, s, limit) < 0}
    ELSE {start}

\* Comparator::FindShortSuccessor(&key): the strings >= key.
Successors(cmp, key) ==
  {s \in (KeySpace \cup {key}) \cap Near(key) : Compare(cmp, key, s) <= 0}

\* BlockBuilder: the entries added since construction or Reset, and the
\* bytes of their encoding.
BlockBuilder(tag) == [tag |-> tag, entries |-> <<>>, bytes |-> 0]
BlockBuilder_empty(b) == b.bytes = 0
BlockBuilder_Add(b, key, value, keylen, valuelen) ==
  [b EXCEPT !.entries = Append(@, [key |-> key, value |-> value]),
            !.bytes = @ + 3 + keylen + valuelen]
NumRestarts(n, interval) == IF n = 0 THEN 1 ELSE 1 + ((n - 1) \div interval)
CurrentSizeEstimate(b, opts) ==
  b.bytes + 4 * NumRestarts(Len(b.entries), opts.block_restart_interval) + 4
BlockBuilder_Finish(b, opts) ==
  [tag |-> b.tag, entries |-> b.entries,
   raw_size |-> CurrentSizeEstimate(b, opts),
   size |-> CurrentSizeEstimate(b, opts)]
BlockBuilder_Reset(b) == BlockBuilder(b.tag)

\* FilterBlockBuilder: the policy it was built with, the offsets announced
\* by StartBlock and the keys given to AddKey, each with the offset that
\* was current when it came.
nullptr == <<>>
FilterBlockBuilder(policy) == [policy |-> policy, starts |-> <<>>, keys |-> <<>>]
StartBlock(fb, block_offset) == [fb EXCEPT !.starts = Append(@, block_offset)]
AddKey(fb, key) ==
  [fb EXCEPT !.keys = Append(@, [key |-> key, start |-> fb.starts[Len(fb.starts)]])]
FilterBlockBuilder_Finish(fb) ==
  [tag |-> "filter", entries |-> fb.keys, policy |-> fb.policy,
   starts |-> fb.starts,
   raw_size |-> 5 + Len(fb.keys), size |-> 5 + Len(fb.keys)]

\* port::Snappy_Compress: whether it succeeded and the compressed length.
\* The outcomes sit on both sides of the 12.5% threshold.
Snappy_Compress(raw, outcome) ==
  [ok |-> outcome # "unsupported",
   size |-> IF outcome = "small"
              THEN raw.size - (raw.size \div 8) - 1
              ELSE raw.size - (raw.size \div 8)]

\* WritableFile::Append / Flush: the environment decides which operation
\* of the sink fails (`fail` is its position in the log, 0: none).
WritableFile_Append(f, data, len, fail) ==
  LET good == (Len(f) + 1 # fail)
  IN [file |-> Append(f, [op |-> "Append", data |-> data, len |-> len, ok |-> good]),
      status |-> IF good THEN StatusOK ELSE "IOErrorAppend"]
WritableFile_Flush(f, fail) ==
  LET good == (Len(f) + 1 # fail)
  IN [file |-> Append(f, [op |-> "Flush", data |-> [tag |-> "flush"], len |-> 0, ok |-> good]),
      status |-> IF good THEN StatusOK ELSE "IOErrorFlush"]

\* ------------------------------------------------------ TableBuilder
\* TableBuilder::Rep as a record.  `trap` is not a field of Rep: it is the
\* line at which the call in progress died (a failed assertion, or the
\* crash of line 222), 0 while it runs.  A call that died changes nothing
\* further.
Rep ==
  [options |-> options, index_block_options |-> index_block_options,
   file |-> file, offset |-> offset, status |-> status,
   data_block |-> data_block, index_block |-> index_block,
   last_key |-> last_key, num_entries |-> num_entries, closed |-> closed,
   filter_block |-> filter_block,
   pending_index_entry |-> pending_index_entry,
   pending_handle |-> pending_handle, trap |-> 0]

Trap(r, line) == [r EXCEPT !.trap = line]
Running(r) == r.trap = 0

\* Rep::Rep and TableBuilder::TableBuilder.
NewRep(opt) ==
  [options |-> opt,
   index_block_options |-> [opt EXCEPT !.block_restart_interval = 1],
   file |-> <<>>, offset |-> 0, status |-> StatusOK,
   data_block |-> BlockBuilder("data"), index_block |-> BlockBuilder("index"),
   last_key |-> 0, num_entries |-> 0, closed |-> FALSE,
   filter_block |-> IF opt.filter_policy = NoPolicy
                      THEN nullptr
                      ELSE <<StartBlock(FilterBlockBuilder(opt.filter_policy), 0)>>,
   pending_index_entry |-> FALSE, pending_handle |-> NullHandle, trap |-> 0]

\* r->status = file->Append(..) / file->Flush(): the sink has the
\* operation in its log and the builder has its result.
SetStatus(r, res) == [r EXCEPT !.file = res.file, !.status = res.status]

\* The offset advanced whatever the Append returned (the mutant of C4).
AdvanceOffset_Unchecked(r, n) == [r EXCEPT !.offset = @ + n]

\* if (r->status.ok()) r->offset += n.
AdvanceOffset(r, n) == IF ok(r) THEN [r EXCEPT !.offset = @ + n] ELSE r

\* The 5 bytes after a payload: the type and the masked CRC of payload
\* and type (not computed; `of` names the block it covers).
Trailer(block_contents, type) ==
  [tag |-> "trailer", of |-> block_contents.tag, type |-> type]

\* The trailer appended whatever the Append of the payload returned (the
\* mutant of C3).
AppendTrailer_Unchecked(r, block_contents, type, fail) ==
  AdvanceOffset(
    SetStatus(r, WritableFile_Append(r.file, Trailer(block_contents, type),
                                     kBlockTrailerSize, fail)),
    block_contents.size + kBlockTrailerSize)

\* TableBuilder::WriteRawBlock, after the Append of the payload.
AppendTrailer(r, block_contents, type, fail) ==
  IF ok(r)
    THEN AdvanceOffset(
           SetStatus(r, WritableFile_Append(r.file, Trailer(block_contents, type),
                                            kBlockTrailerSize, fail)),
           block_contents.size + kBlockTrailerSize)
    ELSE r

\* The handle's offset read after the Appends, when r->offset has moved
\* (the mutant of C20).
WriteRawBlock_OffsetAfter(r, block_contents, type, fail) ==
  [rep |-> AppendTrailer(
             SetStatus(r, WritableFile_Append(r.file, block_contents,
                                              block_contents.size, fail)),
             block_contents, type, fail),
   handle |-> [offset |-> AppendTrailer(
                            SetStatus(r, WritableFile_Append(r.file, block_contents,
                                                             block_contents.size, fail)),
                            block_contents, type, fail).offset,
               size |-> block_contents.size]]

\* TableBuilder::WriteRawBlock.  The handle is an out-parameter: it is set
\* before the first Append, whatever the Appends return.
WriteRawBlock(r, block_contents, type, fail) ==
  [rep |-> AppendTrailer(
             SetStatus(r, WritableFile_Append(r.file, block_contents,
                                              block_contents.size, fail)),
             block_contents, type, fail),
   handle |-> [offset |-> r.offset, size |-> block_contents.size]]

\* The compressed form chosen also when it is exactly 7/8 of the raw one
\* (the mutant of C17).
UseCompressed_OrEqual(compression, raw, compressed) ==
  /\ compression = kSnappyCompression
  /\ compressed.ok
  /\ compressed.size <= raw.size - (raw.size \div 8)

\* The choice WriteBlock makes between the raw and the compressed form.
UseCompressed(compression, raw, compressed) ==
  /\ compression = kSnappyCompression
  /\ compressed.ok
  /\ compressed.size < raw.size - (raw.size \div 8)

BlockContents(compression, raw, compressed) ==
  IF UseCompressed(compression, raw, compressed)
    THEN [raw EXCEPT !.size = compressed.size] ELSE raw

BlockType(compression, raw, compressed) ==
  IF UseCompressed(compression, raw, compressed)
    THEN kSnappyCompression ELSE kNoCompression

\* TableBuilder::WriteBlock, from the switch on: `raw` is block->Finish().
WriteFinished(r, raw, compressed, fail) ==
  WriteRawBlock(r, BlockContents(r.options.compression, raw, compressed),
                BlockType(r.options.compression, raw, compressed), fail)

\* WriteBlock without `block->Reset()` (the mutant of C15).
WriteBlock_NoReset(r, block, bopts, outcome, fail) ==
  IF ~ok(r)
    THEN [rep |-> Trap(r, 147), handle |-> NullHandle, block |-> block]
    ELSE [block |-> block] @@
         WriteFinished(r, BlockBuilder_Finish(block, bopts),
                       Snappy_Compress(BlockBuilder_Finish(block, bopts), outcome),
                       fail)

\* TableBuilder::WriteBlock(block, handle).  `bopts` is the Options the
\* BlockBuilder points to.  Returns the Rep, the handle and the block,
\* which has been Reset.
WriteBlock(r, block, bopts, outcome, fail) ==
  IF ~ok(r)
    THEN [rep |-> Trap(r, 147), handle |-> NullHandle, block |-> block]
    ELSE [block |-> BlockBuilder_Reset(block)] @@
         WriteFinished(r, BlockBuilder_Finish(block, bopts),
                       Snappy_Compress(BlockBuilder_Finish(block, bopts), outcome),
                       fail)

\* Flush, line 132: WriteBlock(&r->data_block, &r->pending_handle).
WriteDataBlock(r, w) ==
  [w.rep EXCEPT !.data_block = w.block, !.pending_handle = w.handle]

\* The pending flag left unset (the mutant of C6).
SyncFile_NoPending(r, fail) ==
  IF Running(r) /\ ok(r)
    THEN SetStatus(r, WritableFile_Flush(r.file, fail))
    ELSE r

\* Flush, lines 133-136.
SyncFile(r, fail) ==
  IF Running(r) /\ ok(r)
    THEN SetStatus([r EXCEPT !.pending_index_entry = TRUE],
                   WritableFile_Flush(r.file, fail))
    ELSE r

\* The filter builder told the offset of the block just written, not of
\* the next one (the mutant of C18).
StartFilterBlock_AtBlockWritten(r) ==
  IF Running(r) /\ r.filter_block # nullptr
    THEN [r EXCEPT !.filter_block = <<StartBlock(@[1], r.pending_handle.offset)>>]
    ELSE r

\* Flush, lines 137-139.
StartFilterBlock(r) ==
  IF Running(r) /\ r.filter_block # nullptr
    THEN [r EXCEPT !.filter_block = <<StartBlock(@[1], r.offset)>>]
    ELSE r

\* Flush without `if (r->data_block.empty()) return` (the mutant of C9).
Flush_NoEmptyCheck(r, outcome, fail) ==
  IF r.closed THEN Trap(r, 128)
  ELSE IF ~ok(r) THEN r
  ELSE IF r.pending_index_entry THEN Trap(r, 131)
  ELSE StartFilterBlock(
         SyncFile(
           WriteDataBlock(r, WriteBlock(r, r.data_block, r.options, outcome, fail)),
           fail))

\* Flush announcing a block to the filter builder before it tests whether
\* the data block is empty (the mutant of C13).
Flush_StartsBlockWhenEmpty(r, outcome, fail) ==
  IF r.closed THEN Trap(r, 128)
  ELSE IF ~ok(r) THEN r
  ELSE IF BlockBuilder_empty(r.data_block) THEN StartFilterBlock(r)
  ELSE IF r.pending_index_entry THEN Trap(r, 131)
  ELSE StartFilterBlock(
         SyncFile(
           WriteDataBlock(r, WriteBlock(r, r.data_block, r.options, outcome, fail)),
           fail))

\* TableBuilder::Flush.
Flush(r, outcome, fail) ==
  IF r.closed THEN Trap(r, 128)
  ELSE IF ~ok(r) THEN r
  ELSE IF BlockBuilder_empty(r.data_block) THEN r
  ELSE IF r.pending_index_entry THEN Trap(r, 131)
  ELSE StartFilterBlock(
         SyncFile(
           WriteDataBlock(r, WriteBlock(r, r.data_block, r.options, outcome, fail)),
           fail))

\* The index entry of the last data block written: last_key has been
\* rewritten to `key` (a separator or a successor) by the comparator.
EmitPendingIndexEntry(r, key) ==
  IF r.pending_index_entry
    THEN [r EXCEPT !.last_key = key,
                   !.index_block = BlockBuilder_Add(@, key, r.pending_handle, 1,
                                                    HandleLength(r.pending_handle)),
                   !.pending_index_entry = FALSE]
    ELSE r

\* Add without `r->num_entries++` (the mutant of C11).
AppendEntry_NoCount(r, key, value) ==
  [r EXCEPT !.filter_block = IF @ # nullptr THEN <<AddKey(@[1], key)>> ELSE @,
            !.last_key = key,
            !.data_block = BlockBuilder_Add(@, key, value, 1, value)]

\* Add without `r->last_key.assign(..)`: last_key keeps the separator (the
\* mutant of C12).
AppendEntry_KeepsSeparator(r, key, value) ==
  [r EXCEPT !.filter_block = IF @ # nullptr THEN <<AddKey(@[1], key)>> ELSE @,
            !.last_key = IF r.num_entries = 0 THEN key ELSE @,
            !.num_entries = @ + 1,
            !.data_block = BlockBuilder_Add(@, key, value, 1, value)]

\* Add, lines 112-118.
AppendEntry(r, key, value) ==
  [r EXCEPT !.filter_block = IF @ # nullptr THEN <<AddKey(@[1], key)>> ELSE @,
            !.last_key = key,
            !.num_entries = @ + 1,
            !.data_block = BlockBuilder_Add(@, key, value, 1, value)]

\* The estimate compared with the wrong field of Options (the mutant of
\* C10).
BlockFull_WrongField(r) ==
  CurrentSizeEstimate(r.data_block, r.options) >= r.options.block_restart_interval

\* Whether Add flushes the data block.
BlockFull(r) ==
  CurrentSizeEstimate(r.data_block, r.options) >= r.options.block_size

\* Add, lines 120-123.
FlushIfFull(r, outcome, fail) ==
  IF BlockFull(r) THEN Flush(r, outcome, fail) ELSE r

\* Add without the assertion of line 99 (the mutant of C7).
Add_NoOrderCheck(r, key, value, sep, outcome, fail) ==
  IF r.closed THEN Trap(r, 96)
  ELSE IF ~ok(r) THEN r
  ELSE IF r.pending_index_entry /\ ~BlockBuilder_empty(r.data_block)
    THEN Trap(r, 103)
  ELSE FlushIfFull(AppendEntry(EmitPendingIndexEntry(r, sep), key, value),
                   outcome, fail)

\* Add without `if (!ok()) return` (the mutant of C2).
Add_NoStatusCheck(r, key, value, sep, outcome, fail) ==
  IF r.closed THEN Trap(r, 96)
  ELSE IF r.num_entries > 0 /\ ~(Compare(r.options.comparator, key, r.last_key) > 0)
    THEN Trap(r, 99)
  ELSE IF r.pending_index_entry /\ ~BlockBuilder_empty(r.data_block)
    THEN Trap(r, 103)
  ELSE FlushIfFull(AppendEntry(EmitPendingIndexEntry(r, sep), key, value),
                   outcome, fail)

\* TableBuilder::Add(key, value).  `sep` is what FindShortestSeparator
\* leaves in last_key.
Add(r, key, value, sep, outcome, fail) ==
  IF r.closed THEN Trap(r, 96)
  ELSE IF ~ok(r) THEN r
  ELSE IF r.num_entries > 0 /\ ~(Compare(r.options.comparator, key, r.last_key) > 0)
    THEN Trap(r, 99)
  ELSE IF r.pending_index_entry /\ ~BlockBuilder_empty(r.data_block)
    THEN Trap(r, 103)
  ELSE FlushIfFull(AppendEntry(EmitPendingIndexEntry(r, sep), key, value),
                   outcome, fail)

\* ChangeOptions without the comparator check (the mutant of C5).
ChangeOptions_NoCheck(r, opt) ==
  [rep |-> [r EXCEPT !.options = opt,
                     !.index_block_options =
                       [opt EXCEPT !.block_restart_interval = 1]],
   ret |-> StatusOK]

\* TableBuilder::ChangeOptions: the Rep and the Status returned.
ChangeOptions(r, opt) ==
  IF opt.comparator # r.options.comparator
    THEN [rep |-> r, ret |-> "InvalidArgument"]
    ELSE [rep |-> [r EXCEPT !.options = opt,
                            !.index_block_options =
                              [opt EXCEPT !.block_restart_interval = 1]],
          ret |-> StatusOK]

\* Abandon without its assertion (the mutant of C1).
Abandon_NoAssert(r) == [r EXCEPT !.closed = TRUE]

\* Abandon writing out the data block first (the mutant of C14).
Abandon_Flushing(r) ==
  IF r.closed THEN Trap(r, 261)
  ELSE [Flush(r, "unsupported", 0) EXCEPT !.closed = TRUE]

\* TableBuilder::Abandon.
Abandon(r) ==
  IF r.closed THEN Trap(r, 261) ELSE [r EXCEPT !.closed = TRUE]

\* Finish without `r->closed = true` (the mutant of C8).
FlushAndClose_StillOpen(r) ==
  IF ~Running(r) THEN r
  ELSE IF r.closed THEN Trap(r, 206)
  ELSE r

\* Finish, lines 205-207.
FlushAndClose(r) ==
  IF ~Running(r) THEN r
  ELSE IF r.closed THEN Trap(r, 206)
  ELSE [r EXCEPT !.closed = TRUE]

\* Finish, lines 211-214: the Rep and filter_block_handle.
WriteFilterBlock(r, fail) ==
  IF Running(r) /\ ok(r) /\ r.filter_block # nullptr
    THEN WriteRawBlock(r, FilterBlockBuilder_Finish(r.filter_block[1]),
                       kNoCompression, fail)
    ELSE [rep |-> r, handle |-> NullHandle]

\* Line 222 calls Name() through options.filter_policy, which
\* ChangeOptions may have set to null while filter_block lives on: that is
\* undefined behaviour.  The builds either crash there or go on with a
\* garbage name.
NullPolicyDeref(r) ==
  r.filter_block # nullptr /\ r.options.filter_policy = NoPolicy

PolicyName(r) ==
  IF r.options.filter_policy = NoPolicy THEN "garbage" ELSE r.options.filter_policy

\* Finish, lines 218-226: meta_index_block.
MetaIndexBlock(r, filter_block_handle) ==
  IF r.filter_block # nullptr
    THEN BlockBuilder_Add(BlockBuilder("metaindex"), <<"filter.", PolicyName(r)>>,
                          filter_block_handle, 9, HandleLength(filter_block_handle))
    ELSE BlockBuilder("metaindex")

\* Finish, lines 216-230: the Rep and metaindex_block_handle.  `w` is what
\* WriteFilterBlock returned.
WriteMetaIndexBlock(w, outcome, fail, ub) ==
  IF ~Running(w.rep) \/ ~ok(w.rep)
    THEN [rep |-> w.rep, handle |-> NullHandle]
  ELSE IF NullPolicyDeref(w.rep) /\ ub = "segv"
    THEN [rep |-> Trap(w.rep, 222), handle |-> NullHandle]
  ELSE WriteBlock(w.rep, MetaIndexBlock(w.rep, w.handle), w.rep.options,
                  outcome, fail)

\* Finish, line 241: WriteBlock(&r->index_block, &index_block_handle).
WriteIndex(r, outcome, fail) ==
  WriteBlock(r, r.index_block, r.index_block_options, outcome, fail)

\* Finish, lines 232-242: the Rep, metaindex_block_handle and
\* index_block_handle.  `w` is what WriteMetaIndexBlock returned.
WriteIndexBlock(w, wi) ==
  [rep |-> [wi.rep EXCEPT !.index_block = wi.block],
   metaindex_block_handle |-> w.handle, index_block_handle |-> wi.handle]

FinishIndex(w, succ, outcome, fail) ==
  IF ~Running(w.rep) \/ ~ok(w.rep)
    THEN [rep |-> w.rep, metaindex_block_handle |-> w.handle,
          index_block_handle |-> NullHandle]
    ELSE WriteIndexBlock(w, WriteIndex(EmitPendingIndexEntry(w.rep, succ),
                                       outcome, fail))

\* Footer::EncodeTo: the two handles, padding and the magic number.
Footer(metaindex_handle, index_handle) ==
  [tag |-> "footer", metaindex_handle |-> metaindex_handle,
   index_handle |-> index_handle, size |-> kEncodedLength]

\* The footer written without `if (ok())` (the mutant of C16).
WriteFooter_Unchecked(w, fail) ==
  IF ~Running(w.rep)
    THEN w.rep
    ELSE AdvanceOffset(
           SetStatus(w.rep,
                     WritableFile_Append(
                       w.rep.file,
                       Footer(w.metaindex_block_handle, w.index_block_handle),
                       kEncodedLength, fail)),
           kEncodedLength)

\* Finish, lines 244-256.  `w` is what FinishIndex returned.
WriteFooter(w, fail) ==
  IF ~Running(w.rep) \/ ~ok(w.rep)
    THEN w.rep
    ELSE AdvanceOffset(
           SetStatus(w.rep,
                     WritableFile_Append(
                       w.rep.file,
                       Footer(w.metaindex_block_handle, w.index_block_handle),
                       kEncodedLength, fail)),
           kEncodedLength)

\* TableBuilder::Finish.  `outcomes` are the snappy results for the data,
\* metaindex and index blocks; `succ` is what FindShortSuccessor leaves in
\* last_key; `ub` is what the undefined behaviour of line 222 does.
Finish(r, outcomes, succ, fail, ub) ==
  WriteFooter(
    FinishIndex(
      WriteMetaIndexBlock(
        WriteFilterBlock(FlushAndClose(Flush(r, outcomes[1], fail)), fail),
        outcomes[2], fail, ub),
      succ, outcomes[3], fail),
    fail)

\* TableBuilder::NumEntries, FileSize, status.
NumEntries == num_entries
FileSize == offset
status_ == status

\* ------------------------------------------------------------ actions
\* The most recent public call: its name, its argument (the key of Add,
\* the Options of ChangeOptions), and how it ended: its return value
\* ("void" for none), an assertion that failed (`at` is its line), or the
\* crash of line 222.
Ended(op, arg, ret, line) == [op |-> op, arg |-> arg, ret |-> ret, at |-> line]
NoArg == "none"
Alive == call.ret \notin {"assert", "segv"}

\* The state after a call: the Rep as the call left it, and how it ended.
Install(r) ==
  /\ options' = r.options
  /\ index_block_options' = r.index_block_options
  /\ file' = r.file
  /\ offset' = r.offset
  /\ status' = r.status
  /\ data_block' = r.data_block
  /\ index_block' = r.index_block
  /\ last_key' = r.last_key
  /\ num_entries' = r.num_entries
  /\ closed' = r.closed
  /\ filter_block' = r.filter_block
  /\ pending_index_entry' = r.pending_index_entry
  /\ pending_handle' = r.pending_handle

Return(op, arg, r, ret) ==
  /\ Install(r)
  /\ call' = Ended(op, arg,
                   IF Running(r) THEN ret ELSE IF r.trap = 222 THEN "segv" ELSE "assert",
                   r.trap)

ReturnStatus(op, arg, r) == Return(op, arg, r, r.status)

Init ==
  \E opt \in OptionValues :
    /\ options = NewRep(opt).options
    /\ index_block_options = NewRep(opt).index_block_options
    /\ file = NewRep(opt).file
    /\ offset = NewRep(opt).offset
    /\ status = NewRep(opt).status
    /\ data_block = NewRep(opt).data_block
    /\ index_block = NewRep(opt).index_block
    /\ last_key = NewRep(opt).last_key
    /\ num_entries = NewRep(opt).num_entries
    /\ closed = NewRep(opt).closed
    /\ filter_block = NewRep(opt).filter_block
    /\ pending_index_entry = NewRep(opt).pending_index_entry
    /\ pending_handle = NewRep(opt).pending_handle
    /\ call = Ended("TableBuilder", opt, "void", 0)

\* What the environment chooses for one call.  At most one sink operation
\* fails per call: `fail` is its position in the log (0: none), among the
\* operations the call issues when none fails (`after` is the log then).
Faults(after) == {0} \cup ((Len(file) + 1)..Len(after))

\* Snappy_Compress has an outcome only where it is called.
Outcomes == IF options.compression = kSnappyCompression
              THEN SnappyOutcomes ELSE {"unsupported"}

DoAdd ==
  /\ Alive
  /\ \E key \in Keys, value \in ValueSizes, outcome \in Outcomes :
       \E sep \in IF pending_index_entry
                    THEN Separators(options.comparator, last_key, key)
                    ELSE {last_key} :
         \E fail \in Faults(Add(Rep, key, value, sep, outcome, 0).file) :
           Return("Add", key, Add(Rep, key, value, sep, outcome, fail), "void")

DoFlush ==
  /\ Alive
  /\ \E outcome \in Outcomes :
       \E fail \in Faults(Flush(Rep, outcome, 0).file) :
         Return("Flush", NoArg, Flush(Rep, outcome, fail), "void")

DoChangeOptions ==
  /\ Alive
  /\ \E opt \in OptionValues :
       Return("ChangeOptions", opt, ChangeOptions(Rep, opt).rep,
              ChangeOptions(Rep, opt).ret)

DoFinish ==
  /\ Alive
  /\ \E outcomes \in [1..3 -> Outcomes],
        ub \in IF NullPolicyDeref(Rep) THEN {"segv", "garbage"} ELSE {"garbage"} :
       \E succ \in IF BlockBuilder_empty(data_block) /\ ~pending_index_entry
                     THEN {last_key}
                     ELSE Successors(options.comparator, last_key) :
         \E fail \in Faults(Finish(Rep, outcomes, succ, 0, "garbage").file) :
           ReturnStatus("Finish", NoArg, Finish(Rep, outcomes, succ, fail, ub))

DoAbandon ==
  /\ Alive
  /\ Return("Abandon", NoArg, Abandon(Rep), "void")

Next == DoAdd \/ DoFlush \/ DoChangeOptions \/ DoFinish \/ DoAbandon

Spec == Init /\ [][Next]_vars

\* ------------------------------------------------------- observations
\* The bytes the sink has accepted in its first n operations: those of the
\* Appends that succeeded.
RECURSIVE AcceptedUpTo(_, _)
AcceptedUpTo(f, n) ==
  IF n = 0 THEN 0
  ELSE AcceptedUpTo(f, n - 1)
         + (IF f[n].op = "Append" /\ f[n].ok THEN f[n].len ELSE 0)
AcceptedBytes == AcceptedUpTo(file, Len(file))

BlockTags == {"data", "filter", "metaindex", "index"}
IsPayload(e) == e.op = "Append" /\ e.data.tag \in BlockTags
IsTrailer(e) == e.op = "Append" /\ e.data.tag = "trailer"
IsFooter(e) == e.op = "Append" /\ e.data.tag = "footer"

\* The fields of Rep other than the two Options.
buildvars == <<file, offset, status, data_block, index_block, last_key,
               num_entries, closed, filter_block, pending_index_entry,
               pending_handle>>

\* ------------------------------------------------------------- claims
\* C1 as stated: once the builder is closed, no later call changes any
\* builder state.  ChangeOptions has no closed check and still installs
\* the Options it is given.
C1_ClosedRejectsEveryCall ==
  [][closed => UNCHANGED repvars]_vars

\* C1 as amended: once the builder is closed, Add, Flush, Finish and
\* Abandon die on their assertion and change nothing; no call issues a
\* sink operation or changes status, offset, num_entries, the blocks or
\* the pending flag; ChangeOptions alone is still accepted (it returns OK
\* or InvalidArgument) and may replace options and index_block_options.
C1_ClosedRejectsAllButChangeOptions ==
  [][closed =>
       /\ UNCHANGED buildvars
       /\ IF call'.op = "ChangeOptions"
            THEN call'.ret \in {StatusOK, "InvalidArgument"}
            ELSE call'.ret = "assert" /\ UNCHANGED <<options, index_block_options>>
    ]_vars

\* A closed builder on which a further Add, Flush, Finish or Abandon died.
C1_Witness ==
  closed /\ call.ret = "assert" /\ call.op \in {"Add", "Flush", "Finish", "Abandon"}

\* C2: once the status is not ok it keeps its value for ever, and it is
\* the error of a sink operation that failed; every Add and Flush called
\* in such a state changes nothing of the builder and issues no sink
\* operation.
SinkError(e) == IF e.op = "Append" THEN "IOErrorAppend" ELSE "IOErrorFlush"

C2_ErrorIsSticky ==
  /\ [](status # StatusOK =>
          \E i \in 1..Len(file) : ~file[i].ok /\ status = SinkError(file[i]))
  /\ [][status # StatusOK =>
          /\ status' = status
          /\ call'.op \in {"Add", "Flush"} => UNCHANGED repvars
       ]_vars

\* An Add that arrived after the error was latched: its key was not
\* recorded.
C2_Witness ==
  /\ status # StatusOK /\ ~closed
  /\ call.op = "Add" /\ call.ret = "void" /\ call.arg # last_key

\* C3: the sink operation that failed is the last one the builder ever
\* issues: the status is not ok from then on, no later call appends or
\* flushes or moves the offset, and a Finish called then only closes the
\* builder and returns the latched error.
FailedOperationIsLast ==
  \A i \in 1..Len(file) : ~file[i].ok => i = Len(file)

C3_NoAppendAfterError ==
  /\ [](FailedOperationIsLast)
  /\ []((\E i \in 1..Len(file) : ~file[i].ok) => status # StatusOK)
  /\ [][status # StatusOK =>
          /\ file' = file /\ offset' = offset
          /\ (call'.op = "Finish" /\ call'.ret # "assert") =>
               (closed' /\ call'.ret = status /\ UNCHANGED <<index_block, pending_index_entry>>)
       ]_vars

\* A Finish that returned the error of a failed Append.
C3_Witness ==
  /\ closed /\ call.op = "Finish" /\ call.ret = "IOErrorAppend"
  /\ status = "IOErrorAppend" /\ ~file[Len(file)].ok

\* The bytes of the blocks whose payload and trailer were both accepted,
\* and of the footer.
RECURSIVE CompleteUpTo(_, _)
CompleteUpTo(f, n) ==
  IF n = 0 THEN 0
  ELSE CompleteUpTo(f, n - 1)
         + (IF IsTrailer(f[n]) /\ f[n].ok THEN f[n - 1].len + f[n].len
            ELSE IF IsFooter(f[n]) /\ f[n].ok THEN f[n].len
            ELSE 0)
CompleteBytes == CompleteUpTo(file, Len(file))

\* C4 as stated: FileSize() is the number of bytes the sink has accepted,
\* in every reachable state.  It is not after a payload was accepted and
\* its trailer refused.
C4_OffsetIsAcceptedBytes ==
  FileSize = AcceptedBytes

\* C4 as amended: FileSize() is the sum, over the blocks whose payload and
\* trailer were both accepted, of payload length + 5, plus the footer
\* length once the footer is accepted; it equals the bytes the sink has
\* accepted while the status is ok or the failure was one of a sink Flush,
\* and never exceeds them.
C4_OffsetIsCompleteBytes ==
  /\ FileSize = CompleteBytes
  /\ FileSize <= AcceptedBytes
  /\ status \in {StatusOK, "IOErrorFlush"} => FileSize = AcceptedBytes

\* A finished table with entries: blocks and footer are counted.
C4_Witness ==
  /\ closed /\ status = StatusOK /\ num_entries > 0
  /\ Len(file) > 0 /\ IsFooter(file[Len(file)])
  /\ FileSize > kEncodedLength

\* C5: ChangeOptions with a comparator other than the builder's returns
\* InvalidArgument and changes nothing of the builder; the comparator
\* never changes; and the Add that follows on an open builder whose status
\* is ok is accepted exactly when its key is greater than last_key by that
\* comparator (or is the first key), and dies on the assertion of line 99
\* otherwise.
C5_ComparatorChangeRejected ==
  /\ [][(call'.op = "ChangeOptions"
          /\ call'.arg.comparator # options.comparator)
        => (call'.ret = "InvalidArgument" /\ UNCHANGED repvars)]_vars
  /\ [][options'.comparator = options.comparator]_vars
  /\ [][(call.op = "ChangeOptions" /\ call.ret = "InvalidArgument"
          /\ call'.op = "Add" /\ ~closed /\ status = StatusOK)
        => IF num_entries = 0
              \/ Compare(options.comparator, call'.arg, last_key) > 0
             THEN /\ call'.ret = "void"
                  /\ num_entries' = num_entries + 1
                  /\ last_key' = call'.arg
             ELSE /\ call'.ret = "assert" /\ call'.at = 99
                  /\ UNCHANGED repvars]_vars

\* A comparator change refused after an Add was accepted, on a builder
\* that can take further keys.
C5_Witness ==
  /\ call.op = "ChangeOptions" /\ call.ret = "InvalidArgument"
  /\ num_entries > 0 /\ ~closed /\ status = StatusOK

\* The positions in the log of the Appends, of the payloads of data
\* blocks, and of the data blocks whose payload and trailer were accepted.
Positions(P(_)) == SelectSeq([i \in 1..Len(file) |-> i], P)
IsDataPayload(e) == IsPayload(e) /\ e.data.tag = "data"
DataPayloads == Positions(LAMBDA i : IsDataPayload(file[i]))
DataBlocks ==
  Positions(LAMBDA i : /\ IsDataPayload(file[i]) /\ file[i].ok
                       /\ i < Len(file) /\ IsTrailer(file[i + 1]) /\ file[i + 1].ok)
IndexPayloads == Positions(LAMBDA i : IsPayload(file[i]) /\ file[i].data.tag = "index")
Appends == SelectSeq(file, LAMBDA e : e.op = "Append")

\* Where the payload appended by operation i lies in the sink.
HandleAt(i) == [offset |-> AcceptedUpTo(file, i - 1), size |-> file[i].len]

\* Finish returned ok: the footer was accepted.
FinishedOK == Len(file) > 0 /\ IsFooter(file[Len(file)]) /\ file[Len(file)].ok

\* The entries of the index block: those written, or those collected so
\* far.
IndexEntries ==
  IF Len(IndexPayloads) > 0
    THEN file[IndexPayloads[1]].data.entries
    ELSE index_block.entries

KeysOf(i) == {file[i].data.entries[k].key : k \in 1..Len(file[i].data.entries)}

\* C6: when Finish has returned ok, one index block was written, it has
\* as many entries as data blocks were written, and the value of its i-th
\* entry is the place of the i-th data block in the sink.
C6_IndexMatchesDataBlocks ==
  /\ (call.op = "Finish" /\ call.ret = StatusOK) => FinishedOK
  /\ FinishedOK =>
       /\ Len(IndexPayloads) = 1
       /\ Len(DataBlocks) = Len(DataPayloads)
       /\ Len(IndexEntries) = Len(DataBlocks)
       /\ \A k \in 1..Len(IndexEntries) :
            IndexEntries[k].value = HandleAt(DataBlocks[k])

\* A finished table of two data blocks.
C6_Witness ==
  FinishedOK /\ Len(DataBlocks) = 2 /\ call.op = "Finish"

\* C7: in every state, the k-th index entry belongs to the k-th data
\* block written; its key is >= every key of that block and < every key
\* of the next data block (written, or still being filled); the index keys
\* are strictly increasing.  The order is the comparator's.
Before(a, b) == Compare(options.comparator, a, b) < 0
NotAfter(a, b) == Compare(options.comparator, a, b) <= 0
DataBlockKeys ==
  [k \in 1..Len(DataPayloads) |-> KeysOf(DataPayloads[k])]
     \o (IF BlockBuilder_empty(data_block) THEN <<>>
         ELSE <<{data_block.entries[k].key : k \in 1..Len(data_block.entries)}>>)

C7_SeparatorsSeparate ==
  /\ Len(IndexEntries) <= Len(DataBlocks)
  /\ \A k \in 1..Len(IndexEntries) :
       /\ \A key \in DataBlockKeys[k] : NotAfter(key, IndexEntries[k].key)
       /\ k < Len(DataBlockKeys) =>
            \A key \in DataBlockKeys[k + 1] : Before(IndexEntries[k].key, key)
       /\ k < Len(IndexEntries) =>
            Before(IndexEntries[k].key, IndexEntries[k + 1].key)

\* A finished table of two data blocks whose first index key is a
\* separator the comparator made up, not a key of the table.
C7_Witness ==
  /\ FinishedOK /\ Len(IndexEntries) = 2
  /\ IndexEntries[1].key \notin Keys

\* C8: the Appends issued so far are a prefix of the file layout: data
\* blocks, then at most one filter block, then the metaindex block, the
\* index block and the footer; a trailer follows the payload it covers
\* and nothing else; an accepted payload has its trailer next; nothing
\* follows an Append that failed.
FollowsInLayout(prev, tag) ==
  \/ prev = "data" /\ tag \in {"data", "filter", "metaindex"}
  \/ prev = "filter" /\ tag = "metaindex"
  \/ prev = "metaindex" /\ tag = "index"
  \/ prev = "index" /\ tag = "footer"

C8_AppendsFollowLayout ==
  \A i \in 1..Len(Appends) :
    /\ i > 1 => Appends[i - 1].ok
    /\ IsTrailer(Appends[i]) =>
         i > 1 /\ IsPayload(Appends[i - 1])
               /\ Appends[i - 1].data.tag = Appends[i].data.of
    /\ (IsPayload(Appends[i]) /\ Appends[i].ok) =>
         i < Len(Appends) /\ IsTrailer(Appends[i + 1])
    /\ ~IsTrailer(Appends[i]) =>
         IF i = 1
           THEN Appends[i].data.tag \in {"data", "filter", "metaindex"}
           ELSE /\ IsTrailer(Appends[i - 1])
                /\ FollowsInLayout(Appends[i - 1].data.of, Appends[i].data.tag)

\* A finished table with every part of the layout: two data blocks, the
\* filter block, metaindex, index and footer.
C8_Witness ==
  /\ FinishedOK /\ Len(DataBlocks) = 2
  /\ \E i \in 1..Len(file) : IsPayload(file[i]) /\ file[i].data.tag = "filter"

\* The tags of the Appends, in order.
AppendTags == [i \in 1..Len(Appends) |-> Appends[i].data.tag]

\* C9 as stated: Finish on a builder that never accepted an Add appends
\* the metaindex block, an empty index block and the footer, and no data
\* block and no filter block, also when a filter policy is configured.
C9_EmptyTableHasNoFilterBlock ==
  (FinishedOK /\ num_entries = 0) =>
    AppendTags = <<"metaindex", "trailer", "index", "trailer", "footer">>

\* C9 as amended: Finish on a builder that never accepted an Add, when it
\* returns ok, has appended no data block; the filter block (of no key)
\* exactly when the builder was constructed with a filter policy; then the
\* metaindex block (with the filter entry exactly when there is a filter
\* block), an index block of zero entries and the footer.
C9_EmptyTable ==
  /\ [](call.op = "TableBuilder" =>
          ((filter_block # nullptr) <=> (call.arg.filter_policy # NoPolicy)))
  /\ [][(filter_block' # nullptr) <=> (filter_block # nullptr)]_vars
  /\ []((FinishedOK /\ num_entries = 0) =>
          /\ AppendTags =
               (IF filter_block # nullptr THEN <<"filter", "trailer">> ELSE <<>>)
                 \o <<"metaindex", "trailer", "index", "trailer", "footer">>
          /\ \A i \in 1..Len(Appends) :
               /\ Appends[i].data.tag \in {"filter", "index"} =>
                    Appends[i].data.entries = <<>>
               /\ Appends[i].data.tag = "metaindex" =>
                    Len(Appends[i].data.entries) =
                      (IF filter_block # nullptr THEN 1 ELSE 0))

\* An empty table finished ok by a builder that has a filter policy.
C9_Witness ==
  FinishedOK /\ num_entries = 0 /\ filter_block # nullptr /\ call.op = "Finish"

\* The data block payloads in a log, and the size estimate of the last.
NumDataPayloads(f) == Cardinality({i \in 1..Len(f) : IsDataPayload(f[i])})
LastDataPayload(f) ==
  f[CHOOSE i \in 1..Len(f) :
      IsDataPayload(f[i]) /\ \A j \in (i + 1)..Len(f) : ~IsDataPayload(f[j])]
WroteDataBlock == NumDataPayloads(file') > NumDataPayloads(file)

\* C10 as stated: a call other than Finish never writes a data block
\* whose size estimate is below options.block_size.  Flush() is public:
\* it writes whatever the data block holds.
C10_OnlyFinishWritesSmallBlocks ==
  [][(WroteDataBlock /\ call'.op # "Finish")
     => LastDataPayload(file').data.raw_size >= options.block_size]_vars

\* C10 as amended: Add never writes a data block whose size estimate is
\* below options.block_size; a block below it is written only by Finish
\* or by a Flush() of the caller.
C10_AddWritesOnlyFullBlocks ==
  [][WroteDataBlock =>
       /\ call'.op \in {"Add", "Flush", "Finish"}
       /\ call'.op = "Add" =>
            LastDataPayload(file').data.raw_size >= options.block_size
    ]_vars

\* An Add that was accepted and flushed the data block.
C10_Witness ==
  /\ call.op = "Add" /\ call.ret = "void" /\ call.arg = last_key
  /\ status = StatusOK /\ ~closed
  /\ BlockBuilder_empty(data_block) /\ pending_index_entry


\* The entries given to the data block so far, in order: those of every
\* data block handed to the sink, then those still in data_block.
RECURSIVE EntriesUpTo(_, _)
EntriesUpTo(f, n) ==
  IF n = 0 THEN <<>>
  ELSE EntriesUpTo(f, n - 1) \o (IF IsDataPayload(f[n]) THEN f[n].data.entries ELSE <<>>)
StoredEntries == EntriesUpTo(file, Len(file)) \o data_block.entries

\* An Add that was accepted: the builder was open, its status ok, and the
\* call returned.
AddAccepted ==
  call'.op = "Add" /\ ~closed /\ status = StatusOK /\ call'.ret = "void"

\* C11: NumEntries() is the number of Add calls accepted: an accepted Add
\* adds one to it and no other call changes it (an Add after an error was
\* latched, Flush, ChangeOptions, Finish, Abandon); it is the number of
\* entries given to the data blocks.
C11_NumEntriesCountsAcceptedAdds ==
  /\ [](NumEntries = Len(StoredEntries))
  /\ [][NumEntries' = IF AddAccepted THEN NumEntries + 1 ELSE NumEntries]_vars

\* An Add that came after an error was latched, on a builder that had
\* accepted both keys before: it was not counted.
C11_Witness ==
  /\ call.op = "Add" /\ call.ret = "void" /\ status # StatusOK /\ ~closed
  /\ NumEntries = 2

\* C12: while the builder is open, last_key changes only when an Add is
\* accepted, and is then the key of that Add (what the comparator wrote
\* into last_key for the index entry does not survive the Add); an Add
\* on an open builder whose status is ok, with a key not greater than
\* last_key, dies on the assertion of line 99 and changes nothing; the
\* keys stored in the data blocks are strictly increasing.
C12_KeysStrictlyIncreasing ==
  /\ [][~closed' =>
          last_key' = IF AddAccepted THEN call'.arg ELSE last_key]_vars
  /\ [][(call'.op = "Add" /\ ~closed /\ status = StatusOK /\ num_entries > 0
          /\ Compare(options.comparator, call'.arg, last_key) <= 0)
        => (call'.ret = "assert" /\ call'.at = 99 /\ UNCHANGED repvars)]_vars
  /\ [](\A k \in 1..(Len(StoredEntries) - 1) :
          Compare(options.comparator, StoredEntries[k].key,
                  StoredEntries[k + 1].key) < 0)
  /\ []((~closed /\ num_entries > 0) =>
          last_key = StoredEntries[Len(StoredEntries)].key)

\* An Add whose key is the one just accepted, after the index entry of the
\* first block was written with a separator: it died on the assertion.
C12_Witness ==
  /\ call.op = "Add" /\ call.ret = "assert" /\ call.at = 99
  /\ call.arg = last_key /\ Len(index_block.entries) = 1
  /\ index_block.entries[1].key # StoredEntries[1].key

\* C13: a Flush called while data_block is empty changes nothing of the
\* builder (no sink Append or Flush, no StartBlock, offset, status,
\* pending flag, pending handle and index block as they were); a Flush
\* that follows a Flush changes nothing.
C13_FlushOfEmptyBlockIsNoOp ==
  /\ [][(call'.op = "Flush" /\ BlockBuilder_empty(data_block))
        => (UNCHANGED repvars /\ call'.ret = IF closed THEN "assert" ELSE "void")]_vars
  /\ [][(call.op = "Flush" /\ call'.op = "Flush") => UNCHANGED repvars]_vars

\* A Flush that returned on a builder that has a filter builder and had
\* nothing to write: no block was announced to the filter builder.
C13_Witness ==
  /\ call.op = "Flush" /\ call.ret = "void" /\ ~closed /\ status = StatusOK
  /\ BlockBuilder_empty(data_block) /\ file = <<>>
  /\ filter_block # nullptr /\ filter_block[1].starts = <<0>>

\* C14: Abandon changes closed and nothing else: no sink operation (so no
\* filter, metaindex, index block or footer), offset, num_entries, status
\* and the pending index entry as they were; on an open builder it
\* returns and the builder is closed.
C14_AbandonOnlyCloses ==
  [][call'.op = "Abandon" =>
       /\ UNCHANGED <<options, index_block_options, file, offset, status,
                      data_block, index_block, last_key, num_entries,
                      filter_block, pending_index_entry, pending_handle>>
       /\ IF closed THEN call'.ret = "assert" /\ closed'
                    ELSE call'.ret = "void" /\ closed'
    ]_vars

\* A builder abandoned with entries still in data_block and nothing
\* written.
C14_Witness ==
  /\ call.op = "Abandon" /\ call.ret = "void" /\ closed
  /\ ~BlockBuilder_empty(data_block) /\ file = <<>> /\ FileSize = 0

\* C15: while the index block is not written, it has one entry for each
\* data block written but the last when pending_index_entry is set, and
\* one for each when it is not: at most one index entry is pending;
\* when the flag is set data_block is empty; no call dies on the
\* assertions of lines 103 and 131.  Sink failures included.
C15_PendingMeansEmptyDataBlock ==
  /\ pending_index_entry => BlockBuilder_empty(data_block)
  /\ Len(IndexPayloads) = 0 =>
       Len(index_block.entries) + (IF pending_index_entry THEN 1 ELSE 0)
         = Len(DataBlocks)
  /\ pending_index_entry =>
       (Len(DataBlocks) > 0 /\ pending_handle = HandleAt(DataBlocks[Len(DataBlocks)]))
  /\ ~(call.ret = "assert" /\ call.at \in {103, 131})

\* The flag set by a Flush whose sink Flush failed.
C15_Witness ==
  /\ pending_index_entry /\ status = "IOErrorFlush"
  /\ BlockBuilder_empty(data_block) /\ Len(DataBlocks) = 2

\* The handles encoded in what operation i appended: the values of the
\* entries of an index or metaindex block, the two handles of the footer.
HandlesIn(data) ==
  IF data.tag \in {"index", "metaindex"}
    THEN {data.entries[k].value : k \in 1..Len(data.entries)}
  ELSE IF data.tag = "footer" THEN {data.metaindex_handle, data.index_handle}
  ELSE {}

\* h is the place of a block whose payload and trailer the sink accepted
\* in the first n operations of log f.
WrittenBefore(f, h, n) ==
  \E j \in 1..(n - 1) :
    /\ IsPayload(f[j]) /\ f[j].ok /\ IsTrailer(f[j + 1]) /\ f[j + 1].ok
    /\ h = [offset |-> AcceptedUpTo(f, j - 1), size |-> f[j].len]

\* C16: a handle in an index block, a metaindex block or a footer handed
\* to the sink is the place of a block whose payload and trailer were
\* accepted before, and ends (trailer included) at or before the file
\* offset of that moment; so is a handle when Add stores it in the index
\* block, and every handle the index block holds.
C16_HandlesReferToWrittenBlocks ==
  /\ [](\A i \in 1..Len(file) : \A h \in HandlesIn(file[i].data) :
          /\ WrittenBefore(file, h, i - 1)
          /\ h.offset + h.size + kBlockTrailerSize <= AcceptedUpTo(file, i - 1))
  /\ [](\A h \in HandlesIn(index_block) :
          /\ WrittenBefore(file, h, Len(file))
          /\ h.offset + h.size + kBlockTrailerSize <= offset)
  /\ [][call'.op = "Add" =>
          \A h \in HandlesIn(index_block') \ HandlesIn(index_block) :
            /\ WrittenBefore(file, h, Len(file))
            /\ h.offset + h.size + kBlockTrailerSize <= offset]_vars

\* A footer accepted after a filter block, so that index block, metaindex
\* block and footer all hold handles.
C16_Witness ==
  /\ FinishedOK /\ Len(IndexEntries) = 2
  /\ \E i \in 1..Len(file) :
       file[i].data.tag = "metaindex" /\ HandlesIn(file[i].data) # {}

\* What WriteBlock must choose for raw size n and a compressor that
\* reports `good` and gives c bytes.
Compresses(compression, n, c, good) ==
  compression = kSnappyCompression /\ good /\ 8 * c < 7 * n

\* C17: WriteBlock's choice, for every raw size n and compressed size c:
\* c < n - floor(n/8) is 8*c < 7*n; the block goes out compressed with
\* type 1 exactly when the policy is snappy, the compressor succeeded and
\* 8*c < 7*n, and raw with type 0 otherwise.  (The choice does not depend
\* on the builder: it is evaluated in the initial states.)  And for every
\* block the builder appends: type 1 only under the snappy policy, never
\* for the filter block, and with 8 * size < 7 * raw size; type 0 with
\* the raw payload.
C17_CompressionThreshold ==
  /\ [](call.op = "TableBuilder" =>
          \A n \in Sizes, c \in Sizes, good \in BOOLEAN,
             compression \in {kNoCompression, kSnappyCompression} :
            /\ (c < n - (n \div 8)) <=> (8 * c < 7 * n)
            /\ BlockType(compression, [size |-> n], [ok |-> good, size |-> c])
                 = IF Compresses(compression, n, c, good)
                     THEN kSnappyCompression ELSE kNoCompression
            /\ BlockContents(compression, [size |-> n], [ok |-> good, size |-> c]).size
                 = IF Compresses(compression, n, c, good) THEN c ELSE n)
  /\ [][\A i \in (Len(file) + 1)..Len(file') :
          IsTrailer(file'[i]) =>
            /\ i > 1 /\ IsPayload(file'[i - 1])
            /\ IF file'[i].data.type = kSnappyCompression
                 THEN /\ options.compression = kSnappyCompression
                      /\ file'[i - 1].data.tag # "filter"
                      /\ 8 * file'[i - 1].data.size < 7 * file'[i - 1].data.raw_size
                      /\ file'[i - 1].len = file'[i - 1].data.size
                 ELSE /\ file'[i].data.type = kNoCompression
                      /\ file'[i - 1].data.size = file'[i - 1].data.raw_size
                      /\ file'[i - 1].len = file'[i - 1].data.raw_size]_vars

\* A table with a data block written compressed, an index block written
\* raw under the snappy policy, and a filter block.
C17_Witness ==
  /\ FinishedOK /\ options.compression = kSnappyCompression
  /\ \E i, j, k \in 1..Len(file) :
       /\ IsTrailer(file[i]) /\ file[i].data.of = "data"
       /\ file[i].data.type = kSnappyCompression
       /\ IsTrailer(file[j]) /\ file[j].data.of = "index"
       /\ file[j].data.type = kNoCompression
       /\ IsTrailer(file[k]) /\ file[k].data.of = "filter"

\* The keys given to the data blocks, each with the offset at which the
\* payload of its block was handed to the sink; for the keys still in
\* data_block, the offset at which it would be.
RECURSIVE KeysWithOffsetUpTo(_, _)
KeysWithOffsetUpTo(f, n) ==
  IF n = 0 THEN <<>>
  ELSE KeysWithOffsetUpTo(f, n - 1)
         \o (IF IsDataPayload(f[n])
               THEN [k \in 1..Len(f[n].data.entries) |->
                       [key |-> f[n].data.entries[k].key,
                        start |-> AcceptedUpTo(f, n - 1)]]
               ELSE <<>>)
KeysWithOffset ==
  KeysWithOffsetUpTo(file, Len(file))
    \o [k \in 1..Len(data_block.entries) |->
          [key |-> data_block.entries[k].key, start |-> offset]]

\* C18: a builder constructed with a filter policy calls StartBlock(0)
\* first and StartBlock once after each data block it hands to the sink,
\* with the offset at which the next data block begins; the keys it gave
\* to AddKey are the keys of the data blocks, in order, and the offset
\* announced last before a key came is the offset of the handle of the
\* data block that stores the key.
C18_FilterOffsetsAreBlockOffsets ==
  filter_block # nullptr =>
    /\ Len(filter_block[1].starts) = 1 + Len(DataPayloads)
    /\ filter_block[1].starts[1] = 0
    /\ \A k \in 1..Len(DataPayloads) :
         /\ filter_block[1].starts[k] = HandleAt(DataPayloads[k]).offset
         /\ filter_block[1].starts[k + 1] =
              HandleAt(DataPayloads[k]).offset
                + (IF DataPayloads[k] \in {DataBlocks[j] : j \in 1..Len(DataBlocks)}
                     THEN HandleAt(DataPayloads[k]).size + kBlockTrailerSize
                     ELSE 0)
    /\ filter_block[1].keys = KeysWithOffset

\* Two data blocks written, their keys announced with different offsets.
C18_Witness ==
  /\ filter_block # nullptr /\ Len(DataBlocks) = 2
  /\ Len(filter_block[1].keys) = 2
  /\ filter_block[1].keys[1].start = 0
  /\ filter_block[1].keys[2].start > 0

\* C19 as stated: a metaindex block handed to the sink has a filter entry
\* exactly when a filter block was written before it, and the key of that
\* entry is "filter." + the name of the policy the filter builder was
\* constructed with.  Line 222 takes the name from options.filter_policy
\* as ChangeOptions left it.
C19_FilterNamedAfterBuildersPolicy ==
  \A i \in 1..Len(file) :
    (IsPayload(file[i]) /\ file[i].data.tag = "metaindex") =>
      /\ Len(file[i].data.entries) =
           (IF \E j \in 1..(i - 1) : IsPayload(file[j]) /\ file[j].data.tag = "filter"
              THEN 1 ELSE 0)
      /\ \A k \in 1..Len(file[i].data.entries) :
           file[i].data.entries[k].key = <<"filter.", filter_block[1].policy>>

\* The handles the builder has recorded, in the order of their blocks:
\* once the footer is written, those in the index block, the metaindex
\* block and the footer; before any block other than data blocks is
\* written, those in index_block and the pending one.
Payloads == Positions(LAMBDA i : IsPayload(file[i]))
AllAccepted == \A i \in 1..Len(file) : file[i].ok
MetaIndexEntries ==
  file[CHOOSE i \in 1..Len(file) :
         IsPayload(file[i]) /\ file[i].data.tag = "metaindex"].data.entries
WrittenHandles ==
  [k \in 1..Len(IndexEntries) |-> IndexEntries[k].value]
    \o [k \in 1..Len(MetaIndexEntries) |-> MetaIndexEntries[k].value]
    \o <<file[Len(file)].data.metaindex_handle, file[Len(file)].data.index_handle>>
BuildingHandles ==
  [k \in 1..Len(index_block.entries) |-> index_block.entries[k].value]
    \o (IF pending_index_entry THEN <<pending_handle>> ELSE <<>>)

\* The handles H start at 0, each begins where the one before ends with
\* its trailer, and the last ends at `end`.
Tiles(H, end) ==
  /\ \A k \in 1..Len(H) :
       H[k].offset = IF k = 1 THEN 0
                     ELSE H[k - 1].offset + H[k - 1].size + kBlockTrailerSize
  /\ end = IF Len(H) = 0 THEN 0
           ELSE H[Len(H)].offset + H[Len(H)].size + kBlockTrailerSize

\* C20: while every sink operation has succeeded, the handles the builder
\* records tile the file: the first has offset 0, each next one the
\* offset + size + 5 of the one before, each has the size of its payload;
\* while data blocks are written the last ends at FileSize(); after Finish
\* the footer starts where the index block's trailer ends and FileSize()
\* is that plus the length of the footer.  A call that appends nothing
\* (an Add that does not flush) leaves FileSize() as it was.
C20_BlocksTileTheFile ==
  /\ []((AllAccepted /\ Len(Payloads) = Len(DataPayloads)) =>
          /\ Tiles(BuildingHandles, FileSize)
          /\ Len(BuildingHandles) = Len(DataPayloads)
          /\ \A k \in 1..Len(BuildingHandles) :
               BuildingHandles[k].size = file[DataPayloads[k]].len)
  /\ [](FinishedOK =>
          /\ Tiles(WrittenHandles, AcceptedUpTo(file, Len(file) - 1))
          /\ Len(WrittenHandles) = Len(Payloads)
          /\ \A k \in 1..Len(WrittenHandles) :
               WrittenHandles[k].size = file[Payloads[k]].len
          /\ FileSize = AcceptedUpTo(file, Len(file) - 1) + kEncodedLength)
  /\ [][file' = file => FileSize' = FileSize]_vars

\* A finished table of two data blocks, a filter block, metaindex and
\* index, every byte of it counted.
C20_Witness ==
  /\ FinishedOK /\ call.op = "Finish" /\ Len(WrittenHandles) = 5
  /\ FileSize = AcceptedBytes
=============================================================================
